---- MODULE Spec2Model ----
(***************************************************************************)
(* Pixalyze front end: the API service layer (services/api.js: request     *)
(* cancellation by key, the in-memory response cache) and the zustand      *)
(* store (store/useStore.js) that drives it.                               *)
(*                                                                         *)
(* One action of this model is one macrotask of the browser's event loop:  *)
(* a user/API call, the arrival of a response, a timer tick.  The promise  *)
(* reactions (microtasks) a macrotask triggers run to completion inside    *)
(* it: the request interceptor of a call, the rejection an abort() causes  *)
(* and the catch/finally blocks of the awaiting caller are part of the     *)
(* step that triggers them.                                                *)
(***************************************************************************)
EXTENDS Integers, Sequences, FiniteSets, TLC

VARIABLES
    now,              \* Date.now(), in ms
    ticks,            \* number of clock advances so far (bounded)
    calls,            \* number of calls made so far (bounded)
    responseCache,    \* api.js:81, a Map: sequence of entries in insertion order
    pendingRequests,  \* api.js:7, a Map: set of [key, controller], keys unique
    inflight,         \* requests sent and not yet settled
    deleted,          \* image ids whose imageAPI.delete has resolved
    fifo,             \* observer: cached keys, oldest first insertion first
    lru,              \* observer: cached keys, least recently accessed first
    last,             \* observer: what the last step did and delivered to callers
    store,            \* the zustand store (useStore.js:5-17)
    uploaded,         \* number of images the server has stored (it allots the ids)
    filterPanel,      \* FilterPanel's component state (useState) and what it submitted
    noisePanel,       \* NoisePanel's component state and what it submitted
    engine,           \* the server's processing engine: its input and what it returned
    fourierPanel      \* FourierPanel's component state and what it submitted

outerVars == <<filterPanel, noisePanel, engine, fourierPanel>>

vars == <<now, ticks, calls, responseCache, pendingRequests, inflight, deleted,
          fifo, lru, last, store, uploaded, outerVars>>

storeVars == <<store, uploaded>>

\* A component that is not mounted has no state.
Unmounted == [mounted |-> FALSE]

\* The engine before any request
Idle == [status |-> "idle"]

-----------------------------------------------------------------------------
\* Program constants

CACHE_TTL == 60000

CacheSizeLimit == 100

\* Bounds of the model

MaxTicks == 2

MaxCalls == 3

NumActiveImages == 1

\* Clock advances between two macrotasks: 1 ms and one ms short of the TTL, so
\* that ages TTL-1, TTL and TTL+1 all occur.
Delays == {1, CACHE_TTL - 1}

\* Images the callers of the model ask for.
ActiveIds == 1..NumActiveImages

\* Payload versions the server may answer with.
Versions == {"v1", "v2"}

-----------------------------------------------------------------------------
\* Request bodies and JSON.stringify

Undefined == [kind |-> "undefined", fields |-> <<>>]

FormData == [kind |-> "FormData", fields |-> <<>>]

Object(fields) == [kind |-> "object", fields |-> fields]

\* axios' default transformRequest (api.js:9-15 creates the instance with a JSON
\* content type): a plain object body is replaced in config.data by its JSON
\* text; FormData and an absent body are left alone.
transformRequest(data) ==
    IF data.kind = "object" THEN [kind |-> "string", fields |-> data.fields]
    ELSE data

\* JSON.stringify(config.data || {}).  The text of an object is <<"{}", fields>>;
\* undefined becomes {} and FormData has no enumerable property, so both give
\* "{}"; a string (already JSON text) is quoted and escaped, which is another text.
JSONstringify(data) ==
    CASE data.kind = "undefined" -> <<"{}", <<>>>>
      [] data.kind = "FormData"  -> <<"{}", <<>>>>
      [] data.kind = "object"    -> <<"{}", data.fields>>
      [] OTHER                   -> <<"quoted", data.fields>>

getRequestKey(config) ==
    <<config.method, config.url, JSONstringify(config.data)>>

-----------------------------------------------------------------------------
\* pendingRequests and the interceptors

Controllers(pending) == {p.controller : p \in pending}

UsedIds == {r.id : r \in inflight} \cup Controllers(pendingRequests)

\* A new AbortController: an identity no live request or map entry has.
FreshId == CHOOSE i \in 1..(Cardinality(UsedIds) + 1) :
              /\ i \notin UsedIds
              /\ \A j \in 1..(i - 1) : j \in UsedIds

\* api.js:27-30: the controllers the request interceptor aborts.
AbortedByNone(pending, config) == {}

AbortedBy(pending, config) ==
    {p.controller : p \in {q \in pending : q.key = getRequestKey(config)}}

\* api.js:33-35: pendingRequests.set(requestKey, controller)
RequestInterceptor(pending, config, controller) ==
    {q \in pending : q.key # getRequestKey(config)}
        \cup {[key |-> getRequestKey(config), controller |-> controller]}

\* The config a response or an error carries: the request's, after transformRequest.
SentConfig(config) == [config EXCEPT !.data = transformRequest(config.data)]

\* api.js:44-49
ResponseInterceptorByUrl(pending, config) ==
    {q \in pending : ~(q.key[1] = config.method /\ q.key[2] = config.url)}

ResponseInterceptor(pending, config) ==
    {q \in pending : q.key # getRequestKey(SentConfig(config))}

\* api.js:56-59, for an error that is not a cancellation
ErrorInterceptor(pending, config) ==
    {q \in pending : q.key # getRequestKey(SentConfig(config))}

\* api.js:295-300: the controllers cancelAllRequests aborts
cancelAllAborted(pending) == Controllers(pending)

-----------------------------------------------------------------------------
\* responseCache

Keys(cache) == {cache[i].key : i \in 1..Len(cache)}

Range(cache) == {cache[i] : i \in 1..Len(cache)}

EntryOf(cache, key) == {cache[i] : i \in {j \in 1..Len(cache) : cache[j].key = key}}

CacheDelete(cache, key) == SelectSeq(cache, LAMBDA e : e.key # key)

\* api.js:86: Date.now() - cached.timestamp < CACHE_TTL
IsFreshInclusive(e, t) == t - e.timestamp <= CACHE_TTL

IsFresh(e, t) == t - e.timestamp < CACHE_TTL

\* api.js:84-91: what getCached returns ({} for null) ...
getCachedNever(cache, key, t) == {}

getCached(cache, key, t) ==
    {e.data : e \in {x \in EntryOf(cache, key) : IsFresh(x, t)}}

\* ... and the Map it leaves
afterGetCachedKeepsExpired(cache, key, t) == cache

afterGetCached(cache, key, t) ==
    IF getCached(cache, key, t) # {} THEN cache ELSE CacheDelete(cache, key)

\* api.js:93-100
setCacheEvictLast(cache, key, data, t) ==
    LET c1 == IF Len(cache) > CacheSizeLimit THEN SubSeq(cache, 1, Len(cache) - 1) ELSE cache
    IN  Append(CacheDelete(c1, key), [key |-> key, data |-> data, timestamp |-> t])

setCache(cache, key, data, t) ==
    LET c1 == IF Len(cache) > CacheSizeLimit THEN Tail(cache) ELSE cache
        e  == [key |-> key, data |-> data, timestamp |-> t]
    IN  IF key \in Keys(c1)
        THEN [i \in 1..Len(c1) |-> IF c1[i].key = key THEN e ELSE c1[i]]
        ELSE Append(c1, e)

\* api.js:303-305
clearCache == <<>>

\* Observers of the access order: they follow the accesses, not the Map.
\* (order always holds every key of cache: equal lengths mean nothing to prune)
Prune(order, cache) ==
    IF Len(order) = Len(cache) THEN order
    ELSE LET ks == Keys(cache) IN SelectSeq(order, LAMBDA k : k \in ks)

TouchLru(order, key, cache) ==
    Prune(Append(SelectSeq(order, LAMBDA k : k # key), key), cache)

TouchFifo(order, key, cache) ==
    Prune(IF \E i \in 1..Len(order) : order[i] = key THEN order ELSE Append(order, key),
          cache)

-----------------------------------------------------------------------------
\* The API functions (api.js:103-292) called directly

PerImageApis == {"imageAPI.get", "histogramAPI.calculate"}

CatalogApis == {"filterAPI.getAvailable", "noiseAPI.getTypes", "noiseAPI.getDenoiseMethods"}

CachedApis == PerImageApis \cup CatalogApis

Args(api) == IF api \in PerImageApis THEN ActiveIds ELSE {0}

\* api.js:115, 148, 179, 249, 259
cacheKey(api, id) ==
    CASE api = "imageAPI.get"               -> <<"image", id>>
      [] api = "histogramAPI.calculate"     -> <<"histogram", id>>
      [] api = "filterAPI.getAvailable"     -> <<"filters:available", 0>>
      [] api = "noiseAPI.getTypes"          -> <<"noise:types", 0>>
      [] OTHER                              -> <<"noise:denoise-methods", 0>>

\* api.js:119, 152, 183, 253, 263
urlOf(api, id) ==
    CASE api = "imageAPI.get"               -> <<"/images/", id>>
      [] api = "histogramAPI.calculate"     -> <<"/histogram/", id>>
      [] api = "filterAPI.getAvailable"     -> <<"/filters/available", 0>>
      [] api = "noiseAPI.getTypes"          -> <<"/noise/types", 0>>
      [] OTHER                              -> <<"/noise/denoise-methods", 0>>

\* api.js:122-124 (URL.createObjectURL of the blob) and 153, 184, 254, 264
resultOf(api, version) ==
    IF api = "imageAPI.get" THEN <<"blob:", version>> ELSE <<"json", version>>

NoKey == <<"", 0>>

NoData == <<"", "">>

Outcome(r, kind, cause, data) ==
    [api |-> r.api, key |-> cacheKey(r.api, r.arg), kind |-> kind, cause |-> cause,
     data |-> data, before |-> r.before]

Step(op, api, key, out, evicted) ==
    [op |-> op, api |-> api, key |-> key, out |-> out, evicted |-> evicted]

\* The state after 100 successful imageAPI.get calls for images 1..100.
Prefilled ==
    [i \in 1..CacheSizeLimit |->
        [key |-> <<"image", i>>, data |-> <<"blob:", "v1">>, timestamp |-> 0]]

\* useStore.js:7-13; null is the empty sequence, a value v is <<v>>
StoreInit ==
    [currentImage   |-> <<>>,
     processedImage |-> <<>>,
     imageHistory   |-> <<>>,
     histogram      |-> <<>>,
     fftData        |-> <<>>,
     isLoading      |-> FALSE,
     activeTab      |-> "upload"]

ServiceInit(cache) ==
    /\ now = 0
    /\ ticks = 0
    /\ calls = 0
    /\ responseCache = cache
    /\ pendingRequests = {}
    /\ inflight = {}
    /\ deleted = {}
    /\ fifo = [i \in 1..Len(cache) |-> cache[i].key]
    /\ lru = [i \in 1..Len(cache) |-> cache[i].key]
    /\ last = Step("init", "", NoKey, {}, {})
    /\ store = StoreInit
    /\ uploaded = 0

InitWith(cache) ==
    /\ ServiceInit(cache)
    /\ filterPanel = Unmounted
    /\ noisePanel = Unmounted
    /\ engine = Idle
    /\ fourierPanel = Unmounted

\* The state after loading the module (api.js:7, 81)
Init == InitWith(<<>>)

\* The state with the cache at its size limit
InitFull == InitWith(Prefilled)

\* imageAPI.get, histogramAPI.calculate, filterAPI.getAvailable, noiseAPI.getTypes,
\* noiseAPI.getDenoiseMethods up to their await: the lookup and, on a miss, the
\* request with its interceptor (api.js:23-38).
CallCached(api, id) ==
    /\ calls < MaxCalls
    /\ calls' = calls + 1
    /\ LET key    == cacheKey(api, id)
           cached == getCached(responseCache, key, now)
           config == [method |-> "get", url |-> urlOf(api, id), data |-> Undefined]
           r      == [id |-> FreshId, config |-> config, api |-> api, arg |-> id,
                      before |-> EntryOf(responseCache, key), gone |-> id \in deleted]
           victims == {v \in inflight : v.id \in AbortedBy(pendingRequests, config)}
       IN  /\ responseCache' = afterGetCached(responseCache, key, now)
           /\ IF cached # {}
              THEN /\ UNCHANGED <<pendingRequests, inflight>>
                   /\ lru' = TouchLru(lru, key, responseCache')
                   /\ last' = Step("call", api, key,
                                   {Outcome(r, "hit", "", d) : d \in cached}, {})
              ELSE /\ pendingRequests' = RequestInterceptor(pendingRequests, config, r.id)
                   /\ inflight' = (inflight \ victims) \cup {r}
                   /\ lru' = Prune(lru, responseCache')
                   /\ last' = Step("call", api, key,
                                   {Outcome(v, "cancelled", "duplicate", NoData) : v \in victims},
                                   {})
           /\ fifo' = Prune(fifo, responseCache')
    /\ UNCHANGED <<now, ticks, deleted, storeVars, outerVars>>

\* imageAPI.delete up to its await (api.js:133)
CallDelete(id) ==
    /\ calls < MaxCalls
    /\ calls' = calls + 1
    /\ LET config == [method |-> "delete", url |-> <<"/images/", id>>, data |-> Undefined]
           r      == [id |-> FreshId, config |-> config, api |-> "imageAPI.delete", arg |-> id,
                      before |-> {}, gone |-> id \in deleted]
           victims == {v \in inflight : v.id \in AbortedBy(pendingRequests, config)}
       IN  /\ pendingRequests' = RequestInterceptor(pendingRequests, config, r.id)
           /\ inflight' = (inflight \ victims) \cup {r}
           /\ last' = Step("call", "imageAPI.delete", NoKey,
                           {Outcome(v, "cancelled", "duplicate", NoData) : v \in victims}, {})
    /\ UNCHANGED <<now, ticks, responseCache, deleted, fifo, lru, storeVars, outerVars>>

\* A 2xx response arrives: the response interceptor (api.js:44-49), then the
\* rest of the awaiting API function.  The server answers a request for an
\* image with success only if the request was issued before the image's
\* deletion resolved.
Respond(r, version) ==
    /\ r \in inflight
    /\ ~r.gone
    /\ inflight' = inflight \ {r}
    /\ pendingRequests' = ResponseInterceptor(pendingRequests, r.config)
    /\ IF r.api = "imageAPI.delete"
       THEN /\ responseCache' = CacheDelete(responseCache, <<"image", r.arg>>)
            /\ deleted' = deleted \cup {r.arg}
            /\ fifo' = Prune(fifo, responseCache')
            /\ lru' = Prune(lru, responseCache')
            /\ last' = Step("response", r.api, <<"image", r.arg>>,
                            {Outcome(r, "result", "", NoData)}, {})
       ELSE LET key == cacheKey(r.api, r.arg)
                d   == resultOf(r.api, version)
            IN  /\ responseCache' = setCache(responseCache, key, d, now)
                /\ deleted' = deleted
                /\ fifo' = TouchFifo(fifo, key, responseCache')
                /\ lru' = TouchLru(lru, key, responseCache')
                /\ last' = Step("response", r.api, key, {Outcome(r, "result", "", d)},
                                Keys(responseCache) \ Keys(responseCache'))
    /\ UNCHANGED <<now, ticks, calls, storeVars, outerVars>>

\* The request fails (HTTP error status, network error, timeout): the error
\* handler of the response interceptor (api.js:50-64) rejects with an Error.
RespondError(r) ==
    /\ r \in inflight
    /\ inflight' = inflight \ {r}
    /\ pendingRequests' = ErrorInterceptor(pendingRequests, r.config)
    /\ last' = Step("error", r.api, cacheKey(r.api, r.arg), {Outcome(r, "error", "", NoData)}, {})
    /\ UNCHANGED <<now, ticks, calls, responseCache, deleted, fifo, lru, storeVars, outerVars>>

\* cancelAllRequests (api.js:295-300); each aborted request rejects with
\* {cancelled: true} (api.js:52-54), which leaves pendingRequests alone.
CancelAll ==
    /\ pendingRequests # {}
    /\ LET victims == {v \in inflight : v.id \in cancelAllAborted(pendingRequests)}
       IN  /\ inflight' = inflight \ victims
           /\ last' = Step("cancelAllRequests", "", NoKey,
                           {Outcome(v, "cancelled", "cancelAll", NoData) : v \in victims}, {})
    /\ pendingRequests' = {}
    /\ UNCHANGED <<now, ticks, calls, responseCache, deleted, fifo, lru, storeVars, outerVars>>

ClearCache ==
    /\ responseCache # <<>>
    /\ responseCache' = clearCache
    /\ fifo' = <<>>
    /\ lru' = <<>>
    /\ last' = Step("clearCache", "", NoKey, {}, {})
    /\ UNCHANGED <<now, ticks, calls, pendingRequests, inflight, deleted, storeVars, outerVars>>

\* Time passes between two macrotasks.
Tick(d) ==
    /\ ticks < MaxTicks
    /\ ticks' = ticks + 1
    /\ now' = now + d
    /\ last' = Step("tick", "", NoKey, {}, {})
    /\ UNCHANGED <<calls, responseCache, pendingRequests, inflight, deleted, fifo, lru, storeVars, outerVars>>

Next ==
    \/ \E api \in CachedApis : \E id \in Args(api) : CallCached(api, id)
    \/ \E id \in ActiveIds : CallDelete(id)
    \/ \E r \in inflight : \E v \in Versions : Respond(r, v)
    \/ \E r \in inflight : RespondError(r)
    \/ CancelAll
    \/ ClearCache
    \/ \E d \in Delays : Tick(d)

Spec == Init /\ [][Next]_vars

\* The same operations, started with a full cache
SpecFull == InitFull /\ [][Next]_vars

-----------------------------------------------------------------------------
\* Properties of the cached fetches (checked under Spec)

IsCachedCall(step) == step.op = "call" /\ step.api \in CachedApis

IsFailure(o) == o.kind \in {"error", "cancelled"} /\ o.api \in CachedApis

SameKey(requests, key) ==
    {r \in requests : r.api \in CachedApis /\ cacheKey(r.api, r.arg) = key}

C2_CacheHitOnRepeat ==
    [][ /\ \A o \in last'.out :
              (o.kind = "result" /\ o.api \in CachedApis)
                => /\ o.key \notin Keys(responseCache)
                   /\ EntryOf(responseCache', o.key)
                        = {[key |-> o.key, data |-> o.data, timestamp |-> now']}
        /\ \A i \in 1..Len(responseCache') :
              \/ responseCache'[i] \in Range(responseCache)
              \/ responseCache'[i].key \notin Keys(responseCache)
        /\ \A e \in EntryOf(responseCache, last'.key) :
              (IsCachedCall(last') /\ now - e.timestamp < CACHE_TTL)
                => /\ \E o \in last'.out : o.kind = "hit" /\ o.data = e.data
                   /\ Cardinality(last'.out) = 1
                   /\ inflight' = inflight
                   /\ pendingRequests' = pendingRequests ]_vars

\* A second call for histogram:1 has just been answered from the cache.
C2_Witness ==
    /\ last.op = "call"
    /\ last.key = <<"histogram", 1>>
    /\ \E o \in last.out : o.kind = "hit"
    /\ inflight = {}

\* C3 (as stated): after a failed cached fetch the cache entry of the key is what
\* it was before the call.
C3_CacheAsBeforeTheCall ==
    \A o \in last.out : IsFailure(o) => EntryOf(responseCache, o.key) = o.before

\* C3 (amended): when the request behind a cached fetch fails, the caller gets the
\* failure, nothing is stored: the cache holds no entry for the key afterwards
\* (the lookup removed an expired one), no entry is added and the entries that
\* stay are unaltered; and a call for a key that has no entry sends a request.
C3_NoCachePollutionOnFailure ==
    [][ /\ \A o \in last'.out :
              IsFailure(o)
                => /\ o.key \notin Keys(responseCache')
                   /\ Keys(responseCache') \subseteq Keys(responseCache)
                   /\ \A i \in 1..Len(responseCache') :
                          responseCache'[i] \in Range(responseCache)
        /\ \A r \in inflight \ inflight' :
              (r.api \in CachedApis /\ last'.op # "response")
                => \E o \in last'.out : IsFailure(o) /\ o.key = cacheKey(r.api, r.arg)
        /\ (IsCachedCall(last') /\ last'.key \notin Keys(responseCache))
                => /\ \A o \in last'.out : o.kind # "hit"
                   /\ SameKey(inflight' \ inflight, last'.key) # {} ]_vars

\* A fetch whose lookup had found (and removed) an expired entry has just failed.
C3_Witness ==
    /\ last.op = "error"
    /\ \E o \in last.out : IsFailure(o) /\ o.before # {}

\* C4 (as stated): once imageAPI.delete(id) has resolved, the cache holds no entry
\* keyed to image id.
C4_NoEntryOfDeletedImage ==
    \A id \in deleted :
        /\ <<"image", id>> \notin Keys(responseCache)
        /\ <<"histogram", id>> \notin Keys(responseCache)

C6_AtMostLimitEntries == Len(responseCache) <= CacheSizeLimit

\* C7: a lookup returns data only of an entry younger than CACHE_TTL; a lookup that
\* finds an expired entry removes it and reports a miss; and an entry leaves the
\* cache only by such a lookup of its own key, by eviction on insert, by
\* imageAPI.delete of its image or by clearCache (never by time passing alone).
C7_LazyTtlExpiry ==
    [][ /\ \A o \in last'.out :
              o.kind = "hit"
                => \E e \in EntryOf(responseCache, o.key) :
                       e.data = o.data /\ now - e.timestamp < CACHE_TTL
        /\ \A e \in EntryOf(responseCache, last'.key) :
              (IsCachedCall(last') /\ now - e.timestamp >= CACHE_TTL)
                => /\ \A o \in last'.out : o.kind # "hit"
                   /\ last'.key \notin Keys(responseCache')
        /\ \A k \in Keys(responseCache) \ Keys(responseCache') :
              \/ /\ IsCachedCall(last')
                 /\ last'.key = k
                 /\ \A e \in EntryOf(responseCache, k) : now - e.timestamp >= CACHE_TTL
              \/ last'.op = "response" /\ k \in last'.evicted
              \/ last'.op = "response" /\ last'.api = "imageAPI.delete" /\ last'.key = k
              \/ last'.op = "clearCache" ]_vars

\* A lookup has just found an entry of age exactly CACHE_TTL and sent a request.
C7_Witness ==
    /\ last.op = "call"
    /\ \E r \in inflight : \E e \in r.before : now - e.timestamp = CACHE_TTL

-----------------------------------------------------------------------------
\* The store (useStore.js) driving the API functions

MaxStoreCalls == 3

\* The loading actions that need a current image, with the API function each
\* awaits and the values the model passes as its first argument.
PostActions == {"equalizeHistogram", "applyFilter", "computeFFT", "applyFrequencyFilter",
                "addNoise", "removeNoise"}

ParamsOf(action) ==
    CASE action = "equalizeHistogram"    -> {"global"}
      [] action = "applyFilter"          -> {"blur", "sharpen"}
      [] action = "computeFFT"           -> {""}
      [] action = "applyFrequencyFilter" -> {"lowpass"}
      [] action = "addNoise"             -> {"gaussian"}
      [] OTHER                           -> {"median"}

\* useStore.js:132, 172, 211, 234, 276, 302
apiOf(action) ==
    CASE action = "equalizeHistogram"    -> "histogramAPI.equalize"
      [] action = "applyFilter"          -> "filterAPI.apply"
      [] action = "computeFFT"           -> "fourierAPI.transform"
      [] action = "applyFrequencyFilter" -> "fourierAPI.filter"
      [] action = "addNoise"             -> "noiseAPI.add"
      [] OTHER                           -> "noiseAPI.remove"

\* api.js:158, 189, 221, 237, 269, 278
postUrl(api) ==
    CASE api = "histogramAPI.equalize"   -> <<"/histogram/equalize", 0>>
      [] api = "filterAPI.apply"         -> <<"/filters/apply", 0>>
      [] api = "fourierAPI.transform"    -> <<"/fourier/transform", 0>>
      [] api = "fourierAPI.filter"       -> <<"/fourier/filter", 0>>
      [] api = "noiseAPI.add"            -> <<"/noise/add", 0>>
      [] OTHER                           -> <<"/noise/remove", 0>>

\* api.js:158-162, 189-194, 221-225, 237-241, 269-273, 278-282: the body, a
\* sequence of <<name, value>> in the order the object literal lists them; params
\* is the default {} here
postBody(api, imageId, param) ==
    CASE api = "histogramAPI.equalize" ->
            Object(<< <<"image_id", imageId>>, <<"method", param>> >>)
      [] api = "filterAPI.apply" ->
            Object(<< <<"image_id", imageId>>, <<"filter_type", param>>,
                      <<"params", <<>>>>, <<"use_cache", "true">> >>)
      [] api = "fourierAPI.transform" ->
            Object(<< <<"image_id", imageId>>, <<"shift", "true">>, <<"log_scale", "true">> >>)
      [] api = "fourierAPI.filter" ->
            Object(<< <<"image_id", imageId>>, <<"filter_type", param>> >>)
      [] api = "noiseAPI.add" ->
            Object(<< <<"image_id", imageId>>, <<"noise_type", param>>, <<"params", <<>>>> >>)
      [] OTHER ->
            Object(<< <<"image_id", imageId>>, <<"method", param>>, <<"params", <<>>>> >>)

Request(config, api, arg, action, param) ==
    [id |-> FreshId, config |-> config, api |-> api, arg |-> arg, before |-> {},
     gone |-> FALSE, action |-> action, param |-> param]

\* The catch blocks: useStore.js:68-70, 118-120, 147-149, 220-222, 246-248,
\* 288-290, 314-316 report every rejection (toast.error, then rethrow);
\* applyFilter's (194-198) does not report a cancellation.
CatchReports(action, kind) == ~(action = "applyFilter" /\ kind = "cancelled")

\* What a rejected await makes its store action do
Rejected(r, kind, cause) ==
    [action |-> r.action, api |-> r.api, kind |-> kind, cause |-> cause,
     toastError |-> CatchReports(r.action, kind), thrown |-> CatchReports(r.action, kind)]

Settled(r) ==
    [action |-> r.action, api |-> r.api, kind |-> "result", cause |-> "",
     toastError |-> FALSE, thrown |-> FALSE]

\* The finally blocks of the rejected actions (set({ isLoading: false })) run as
\* microtasks, after the synchronous part of the step that aborted them.
AfterRejections(st, victims) ==
    IF victims = {} THEN st ELSE [st EXCEPT !.isLoading = FALSE]

\* api.get / api.post / api.delete of a store action: the request interceptor
\* and what it aborts.
Send(op, r, st) ==
    LET victims == {v \in inflight : v.id \in AbortedBy(pendingRequests, r.config)}
    IN  /\ pendingRequests' = RequestInterceptor(pendingRequests, r.config, r.id)
        /\ inflight' = (inflight \ victims) \cup {r}
        /\ store' = AfterRejections(st, victims)
        /\ last' = Step(op, r.api, NoKey,
                        {Rejected(v, "cancelled", "duplicate") : v \in victims}, {})

\* useStore.js:39-45: uploadImage up to its first await
UploadImage ==
    /\ calls < MaxStoreCalls
    /\ calls' = calls + 1
    /\ LET victims == {v \in inflight : v.id \in cancelAllAborted(pendingRequests)}
           config  == [method |-> "post", url |-> <<"/images/upload", 0>>, data |-> FormData]
           r       == Request(config, "imageAPI.upload", 0, "uploadImage", "")
       IN  /\ pendingRequests' = RequestInterceptor({}, config, r.id)
           /\ inflight' = (inflight \ victims) \cup {r}
           /\ store' = AfterRejections([store EXCEPT !.isLoading = TRUE], victims)
           /\ last' = Step("uploadImage", r.api, NoKey,
                           {Rejected(v, "cancelled", "cancelAll") : v \in victims}, {})
    /\ UNCHANGED <<now, ticks, responseCache, deleted, fifo, lru, uploaded, outerVars>>

\* useStore.js:57-64 and 72
AfterUpload(st, imageId, url) ==
    [st EXCEPT !.currentImage = <<[id |-> imageId, url |-> url]>>,
               !.processedImage = <<>>,
               !.histogram = <<>>,
               !.fftData = <<>>,
               !.imageHistory = <<>>,
               !.activeTab = "histogram",
               !.isLoading = FALSE]

\* The upload is answered: useStore.js:45-46, then imageAPI.get (api.js:114-121)
\* for the id the server allotted.
UploadResponse(r) ==
    /\ r \in inflight
    /\ r.api = "imageAPI.upload"
    /\ uploaded' = uploaded + 1
    /\ LET imageId == uploaded + 1
           key     == <<"image", imageId>>
           cached  == getCached(responseCache, key, now)
           pending == ResponseInterceptor(pendingRequests, r.config)
           config  == [method |-> "get", url |-> urlOf("imageAPI.get", imageId), data |-> Undefined]
           get     == Request(config, "imageAPI.get", imageId, "uploadImage", "")
           victims == {v \in inflight : v.id \in AbortedBy(pending, config)}
       IN  /\ responseCache' = afterGetCached(responseCache, key, now)
           /\ IF cached # {}
              THEN /\ pendingRequests' = pending
                   /\ inflight' = inflight \ {r}
                   /\ store' = AfterUpload(store, imageId, CHOOSE u \in cached : TRUE)
                   /\ last' = Step("response", r.api, key, {Settled(r)}, {})
              ELSE /\ pendingRequests' = RequestInterceptor(pending, config, get.id)
                   /\ inflight' = (inflight \ (victims \cup {r})) \cup {get}
                   /\ store' = AfterRejections(store, victims)
                   /\ last' = Step("response", r.api, key,
                                   {Rejected(v, "cancelled", "duplicate") : v \in victims}, {})
    /\ fifo' = Prune(fifo, responseCache')
    /\ lru' = Prune(lru, responseCache')
    /\ UNCHANGED <<now, ticks, calls, deleted, outerVars>>

\* useStore.js:109-124 up to the await of histogramAPI.calculate (api.js:147-152);
\* on a cache hit the action completes in the same step.
CalculateHistogram ==
    /\ calls < MaxStoreCalls
    /\ store.currentImage # <<>>
    /\ calls' = calls + 1
    /\ LET imageId == store.currentImage[1].id
           key     == <<"histogram", imageId>>
           cached  == getCached(responseCache, key, now)
           config  == [method |-> "get", url |-> urlOf("histogramAPI.calculate", imageId),
                       data |-> Undefined]
           r       == Request(config, "histogramAPI.calculate", imageId, "calculateHistogram", "")
       IN  /\ responseCache' = afterGetCached(responseCache, key, now)
           /\ IF cached # {}
              THEN /\ UNCHANGED <<pendingRequests, inflight>>
                   /\ store' = [store EXCEPT !.histogram = <<CHOOSE h \in cached : TRUE>>,
                                             !.isLoading = FALSE]
                   /\ last' = Step("calculateHistogram", r.api, key, {Settled(r)}, {})
                   /\ lru' = TouchLru(lru, key, responseCache')
              ELSE /\ Send("calculateHistogram", r, [store EXCEPT !.isLoading = TRUE])
                   /\ lru' = Prune(lru, responseCache')
           /\ fifo' = Prune(fifo, responseCache')
    /\ UNCHANGED <<now, ticks, deleted, uploaded, outerVars>>

\* equalizeHistogram, applyFilter, computeFFT, applyFrequencyFilter, addNoise,
\* removeNoise up to their await (useStore.js:126-132, 166-172, 205-211, 228-234,
\* 270-276, 296-302)
StartAction(action, param) ==
    /\ calls < MaxStoreCalls
    /\ store.currentImage # <<>>
    /\ calls' = calls + 1
    /\ LET imageId == store.currentImage[1].id
           api     == apiOf(action)
           config  == [method |-> "post", url |-> postUrl(api),
                       data |-> postBody(api, imageId, param)]
       IN  Send(action, Request(config, api, imageId, action, param),
                [store EXCEPT !.isLoading = TRUE])
    /\ UNCHANGED <<now, ticks, responseCache, deleted, fifo, lru, uploaded, outerVars>>

\* The url of a result image, as the server made it
resultImage(r, version) == <<r.api, r.arg, r.param, version>>

\* processedData (useStore.js:134-137, 177-182, 236-240, 278-282, 304-308); a
\* field that is absent has the value "" (operation) or -1 (timestamp)
processedData(r, version) ==
    [url |-> resultImage(r, version), by |-> r.action, param |-> r.param,
     operation |-> "", timestamp |-> -1]

\* The same, with the history left as it was
addToHistoryDropped(st, imageData, operation, t) == st

\* useStore.js:88-93
addToHistory(st, imageData, operation, t) ==
    [st EXCEPT !.imageHistory =
        Append(st.imageHistory, [imageData EXCEPT !.operation = operation, !.timestamp = t])]

\* The store after the awaited call of a loading action resolved with `version`
\* (useStore.js:116, 139-144, 184-185, 212-217, 242-243, 284-285, 310-311), and
\* its finally block
Resolved(st, r, version, t) ==
    LET pd   == processedData(r, version)
        done == [st EXCEPT !.isLoading = FALSE]
    IN  CASE r.action = "calculateHistogram" ->
                [done EXCEPT !.histogram = <<resultOf(r.api, version)>>]
          [] r.action = "equalizeHistogram" ->
                addToHistory([done EXCEPT !.processedImage = <<pd>>,
                                          !.histogram = <<<<"equalized", version>>>>],
                             pd, r.action, t)
          [] r.action = "computeFFT" ->
                [done EXCEPT !.fftData = <<<<"spectrum", version>>>>]
          [] r.action = "uploadImage" ->
                AfterUpload(st, r.arg, resultOf(r.api, version))
          [] OTHER ->
                addToHistory([done EXCEPT !.processedImage = <<pd>>], pd, r.action, t)

\* A 2xx response to a request of a store action other than the upload
ActionResponse(r, version) ==
    /\ r \in inflight
    /\ r.api # "imageAPI.upload"
    /\ inflight' = inflight \ {r}
    /\ pendingRequests' = ResponseInterceptor(pendingRequests, r.config)
    /\ IF r.api \in CachedApis
       THEN /\ responseCache' = setCache(responseCache, cacheKey(r.api, r.arg),
                                         resultOf(r.api, version), now)
            /\ fifo' = TouchFifo(fifo, cacheKey(r.api, r.arg), responseCache')
            /\ lru' = TouchLru(lru, cacheKey(r.api, r.arg), responseCache')
       ELSE UNCHANGED <<responseCache, fifo, lru>>
    /\ store' = Resolved(store, r, version, now)
    /\ last' = Step("response", r.api, NoKey, {Settled(r)},
                    Keys(responseCache) \ Keys(responseCache'))
    /\ UNCHANGED <<now, ticks, calls, deleted, uploaded, outerVars>>

\* The same without the finally block: the flag is reset on success only
ActionErrorKeepsLoading(r) ==
    /\ r \in inflight
    /\ inflight' = inflight \ {r}
    /\ pendingRequests' = ErrorInterceptor(pendingRequests, r.config)
    /\ store' = store
    /\ last' = Step("error", r.api, NoKey, {Rejected(r, "error", "")}, {})
    /\ UNCHANGED <<now, ticks, calls, responseCache, deleted, fifo, lru, uploaded, outerVars>>

\* A request of a store action fails: api.js:56-63, then the action's catch and
\* finally blocks
ActionError(r) ==
    /\ r \in inflight
    /\ inflight' = inflight \ {r}
    /\ pendingRequests' = ErrorInterceptor(pendingRequests, r.config)
    /\ store' = [store EXCEPT !.isLoading = FALSE]
    /\ last' = Step("error", r.api, NoKey, {Rejected(r, "error", "")}, {})
    /\ UNCHANGED <<now, ticks, calls, responseCache, deleted, fifo, lru, uploaded, outerVars>>

\* useStore.js:25-36
ResetState ==
    /\ LET victims == {v \in inflight : v.id \in cancelAllAborted(pendingRequests)}
       IN  /\ inflight' = inflight \ victims
           /\ last' = Step("resetState", "", NoKey,
                           {Rejected(v, "cancelled", "cancelAll") : v \in victims}, {})
    /\ pendingRequests' = {}
    /\ responseCache' = clearCache
    /\ fifo' = <<>>
    /\ lru' = <<>>
    /\ store' = [store EXCEPT !.currentImage = <<>>,
                              !.processedImage = <<>>,
                              !.imageHistory = <<>>,
                              !.histogram = <<>>,
                              !.fftData = <<>>,
                              !.isLoading = FALSE]
    /\ UNCHANGED <<now, ticks, calls, deleted, uploaded, outerVars>>

\* useStore.js:76-85
ClearImage ==
    /\ store' = [store EXCEPT !.currentImage = <<>>,
                              !.processedImage = <<>>,
                              !.histogram = <<>>,
                              !.fftData = <<>>,
                              !.imageHistory = <<>>,
                              !.activeTab = "upload"]
    /\ last' = Step("clearImage", "", NoKey, {}, {})
    /\ UNCHANGED <<now, ticks, calls, responseCache, pendingRequests, inflight, deleted,
                   fifo, lru, uploaded, outerVars>>

\* The same, always going back to the original image
UndoClearsProcessed ==
    /\ store' = IF Len(store.imageHistory) > 0
                THEN [store EXCEPT
                        !.processedImage = <<>>,
                        !.imageHistory = SubSeq(@, 1, Len(@) - 1)]
                ELSE store
    /\ last' = Step("undoLastOperation", "", NoKey, {}, {})
    /\ UNCHANGED <<now, ticks, calls, responseCache, pendingRequests, inflight, deleted,
                   fifo, lru, uploaded, outerVars>>

\* useStore.js:95-106
UndoLastOperation ==
    /\ LET history    == store.imageHistory
           newHistory == SubSeq(history, 1, Len(history) - 1)
       IN  store' = IF Len(history) > 0
                    THEN [store EXCEPT
                            !.processedImage =
                                IF newHistory = <<>> THEN <<>>
                                ELSE <<newHistory[Len(newHistory)]>>,
                            !.imageHistory = newHistory]
                    ELSE store
    /\ last' = Step("undoLastOperation", "", NoKey, {}, {})
    /\ UNCHANGED <<now, ticks, calls, responseCache, pendingRequests, inflight, deleted,
                   fifo, lru, uploaded, outerVars>>

StoreNext ==
    \/ UploadImage
    \/ \E r \in inflight : UploadResponse(r)
    \/ CalculateHistogram
    \/ \E action \in PostActions : \E param \in ParamsOf(action) : StartAction(action, param)
    \/ \E r \in inflight : \E v \in Versions : ActionResponse(r, v)
    \/ \E r \in inflight : ActionError(r)
    \/ ResetState
    \/ ClearImage
    \/ UndoLastOperation
    \/ \E d \in Delays : Tick(d)

StoreSpec == Init /\ [][StoreNext]_vars

-----------------------------------------------------------------------------
\* Properties of the request layer under the store (checked under StoreSpec)

PendingEntry(r) == [key |-> getRequestKey(r.config), controller |-> r.id]

\* C8 (as stated): a store action whose request is cancelled reports no error:
\* no toast.error and no rethrown exception.
C8_CancelledIsNotReported ==
    \A o \in last.out : o.kind = "cancelled" => (~o.toastError /\ ~o.thrown)

\* C9: at most one request per request key (method, URL, serialized body) is in
\* flight: a request issued with the key of one in flight aborts that one first.
C9_OneInFlightPerKey ==
    \A r1, r2 \in inflight :
        getRequestKey(r1.config) = getRequestKey(r2.config) => r1 = r2

\* A second applyFilter with the same body has just cancelled the first.
C9_Witness ==
    /\ \E o \in last.out : /\ o.kind = "cancelled"
                           /\ o.cause = "duplicate"
                           /\ o.action = "applyFilter"
    /\ \E r \in inflight : r.action = "applyFilter"
    /\ Cardinality(inflight) = 1

\* C10: every request in flight has its own controller registered in
\* pendingRequests; and cancelAllRequests (in resetState and in uploadImage)
\* aborts every request that was in flight, each caller being rejected as
\* cancelled, and leaves in pendingRequests nothing registered before it.
C10_CancelAllAbortsAllInFlight ==
    /\ [](\A r \in inflight : PendingEntry(r) \in pendingRequests)
    /\ [][ last'.op \in {"resetState", "uploadImage"}
             => /\ inflight \cap inflight' = {}
                /\ \A v \in inflight :
                       \E o \in last'.out : /\ o.kind = "cancelled"
                                            /\ o.cause = "cancelAll"
                                            /\ o.action = v.action
                /\ pendingRequests' = {PendingEntry(r) : r \in inflight'} ]_vars

\* resetState has just aborted two requests that were in flight together.
C10_Witness ==
    /\ last.op = "resetState"
    /\ Cardinality(last.out) = 2
    /\ \A o \in last.out : o.kind = "cancelled" /\ o.cause = "cancelAll"
    /\ inflight = {}
    /\ pendingRequests = {}

-----------------------------------------------------------------------------
\* FilterPanel (components/ResultsDisplay.jsx:382-700)
\*
\* Parameter values are numbers with at most one decimal; the model holds them
\* in tenths (kernel_size 5 is 50, sigma 1.0 is 10).

Tenths == 10

\* ResultsDisplay.jsx:425-438: each filter's parameters, in the order the
\* object literal lists them
filterDefaults(filter) ==
    CASE filter = "blur"           -> << <<"kernel_size", 50>>, <<"sigma", 10>> >>
      [] filter = "box_blur"       -> << <<"kernel_size", 50>> >>
      [] filter = "median"         -> << <<"kernel_size", 50>> >>
      [] filter = "bilateral"      -> << <<"d", 90>>, <<"sigma_color", 750>>,
                                         <<"sigma_space", 750>> >>
      [] filter = "sharpen"        -> << <<"strength", 10>> >>
      [] filter = "unsharp_mask"   -> << <<"sigma", 10>>, <<"strength", 15>>,
                                         <<"threshold", 0>> >>
      [] filter = "edge_sobel"     -> << <<"ksize", 30>> >>
      [] filter = "edge_laplacian" -> << <<"ksize", 30>> >>
      [] filter = "edge_canny"     -> << <<"threshold1", 1000>>, <<"threshold2", 2000>> >>
      [] filter = "emboss"         -> <<>>
      [] filter = "high_pass"      -> << <<"kernel_size", 30>> >>
      [] OTHER                     -> << <<"kernel_size", 50>> >>

\* ResultsDisplay.jsx:387-408: the filters the panel offers
FilterIds ==
    {"blur", "box_blur", "median", "bilateral", "edge_sobel", "edge_laplacian",
     "edge_canny", "sharpen", "unsharp_mask", "emboss", "high_pass", "low_pass"}

\* key.includes(word), over the parameter names of filterDefaults
includes(key, word) ==
    CASE word = "kernel"    -> key = "kernel_size"
      [] word = "ksize"     -> key = "ksize"
      [] word = "sigma"     -> key \in {"sigma", "sigma_color", "sigma_space"}
      [] word = "threshold" -> key \in {"threshold", "threshold1", "threshold2"}
      [] word = "strength"  -> key = "strength"
      [] OTHER              -> FALSE

\* ResultsDisplay.jsx:554-567: min, max and step of the slider of a parameter
sliderRange(key) ==
    CASE includes(key, "kernel") \/ includes(key, "ksize") ->
            [min |-> 1 * Tenths, max |-> 21 * Tenths, step |-> 2 * Tenths]
      [] includes(key, "sigma") ->
            [min |-> 0, max |-> 10 * Tenths, step |-> 1]
      [] includes(key, "threshold") ->
            [min |-> 0, max |-> 255 * Tenths, step |-> 1 * Tenths]
      [] includes(key, "strength") ->
            [min |-> 0, max |-> 5 * Tenths, step |-> 1]
      [] key = "d" ->
            [min |-> 1 * Tenths, max |-> 21 * Tenths, step |-> 2 * Tenths]
      [] OTHER ->
            [min |-> 0, max |-> 100 * Tenths, step |-> 1 * Tenths]

\* The values an <input type="range" min max step> can report: min + k * step,
\* up to max.
sliderValues(range) ==
    {range.min + k * range.step : k \in 0..((range.max - range.min) \div range.step)}

\* The positions the user of the model drags a slider to: both ends and the
\* first step.
SliderStops(range) ==
    {v \in sliderValues(range) : v - range.min <= range.step \/ v = range.max}

\* ResultsDisplay.jsx:541-542: setParams(prev => ({ ...prev, [key]: value })).
\* Overwriting a property keeps its place; a new one goes last.
setParam(params, key, value) ==
    IF \E i \in 1..Len(params) : params[i][1] = key
    THEN [i \in 1..Len(params) |->
            IF params[i][1] = key THEN <<key, value>> ELSE params[i]]
    ELSE Append(params, <<key, value>>)

NothingSubmitted == [filterType |-> "", params |-> <<>>]

\* ResultsDisplay.jsx:518-520: the state of the mounted panel; submitted is the
\* applyFilter call the last step made, if it made one
FilterPanelMounted ==
    [mounted |-> TRUE, selectedFilter |-> "blur", params |-> filterDefaults("blur"),
     submitted |-> NothingSubmitted]

FilterInit ==
    /\ ServiceInit(<<>>)
    /\ filterPanel = FilterPanelMounted
    /\ noisePanel = Unmounted
    /\ engine = Idle
    /\ fourierPanel = Unmounted

\* ResultsDisplay.jsx:641-644 and the effect of 529-531
SelectFilter(filterId) ==
    /\ filterPanel' = [filterPanel EXCEPT !.selectedFilter = filterId,
                                          !.params = filterDefaults(filterId),
                                          !.submitted = NothingSubmitted]
    /\ UNCHANGED <<now, ticks, calls, responseCache, pendingRequests, inflight, deleted,
                   fifo, lru, last, storeVars, noisePanel, engine, fourierPanel>>

\* ResultsDisplay.jsx:575-582: the slider of parameter number i is moved
FilterParamChange(i, value) ==
    /\ i \in 1..Len(filterPanel.params)
    /\ value \in sliderValues(sliderRange(filterPanel.params[i][1]))
    /\ filterPanel' = [filterPanel EXCEPT
                          !.params = setParam(@, filterPanel.params[i][1], value),
                          !.submitted = NothingSubmitted]
    /\ UNCHANGED <<now, ticks, calls, responseCache, pendingRequests, inflight, deleted,
                   fifo, lru, last, storeVars, noisePanel, engine, fourierPanel>>

\* ResultsDisplay.jsx:536-538: applyFilter(selectedFilter, params)
FilterHandleApply ==
    /\ filterPanel' = [filterPanel EXCEPT
                          !.submitted = [filterType |-> filterPanel.selectedFilter,
                                         params |-> filterPanel.params]]
    /\ UNCHANGED <<now, ticks, calls, responseCache, pendingRequests, inflight, deleted,
                   fifo, lru, last, storeVars, noisePanel, engine, fourierPanel>>

FilterNext ==
    \/ \E filterId \in FilterIds : SelectFilter(filterId)
    \/ \E i \in 1..Len(filterPanel.params) :
          \E value \in SliderStops(sliderRange(filterPanel.params[i][1])) :
             FilterParamChange(i, value)
    \/ FilterHandleApply

FilterSpec == FilterInit /\ [][FilterNext]_vars

\* The values a call passes for the parameters of the given names
ValuesOf(params, names) ==
    {params[i][2] : i \in {j \in 1..Len(params) : params[j][1] \in names}}

\* The parameters of the applyFilter call, by name
SubmittedValues(names) == ValuesOf(filterPanel.submitted.params, names)

\* C11: every value FilterPanel submits through applyFilter is in the enforced
\* range: kernel sizes (kernel_size, ksize, d) are odd integers in 3..21, sigma
\* is in 0.1..10, thresholds are in 0..255.
C11_SubmittedInEnforcedRange ==
    /\ \A v \in SubmittedValues({"kernel_size", "ksize", "d"}) :
          /\ v % Tenths = 0
          /\ (v \div Tenths) % 2 = 1
          /\ 3 * Tenths <= v /\ v <= 21 * Tenths
    /\ \A v \in SubmittedValues({"sigma"}) : 1 <= v /\ v <= 10 * Tenths
    /\ \A v \in SubmittedValues({"threshold", "threshold1", "threshold2"}) :
          0 <= v /\ v <= 255 * Tenths

-----------------------------------------------------------------------------
\* NoisePanel (unnamed/part_002)
\*
\* The panel's values have at most two decimals (amount 0.05, step 0.01); the
\* model holds them in hundredths (std 25 is 2500, sigma 1.0 is 100).

Hundredths == 100

NoiseTypes == {"gaussian", "salt_pepper", "poisson", "speckle", "uniform"}

DenoiseMethods == {"gaussian", "median", "bilateral", "nlm", "morphological", "wiener"}

\* part_002:45-51
noiseDefaults(type) ==
    CASE type = "gaussian"    -> << <<"mean", 0>>, <<"std", 25 * Hundredths>> >>
      [] type = "salt_pepper" -> << <<"amount", 5>>, <<"salt_ratio", 50>> >>
      [] type = "poisson"     -> << <<"scale", 1 * Hundredths>> >>
      [] type = "speckle"     -> << <<"std", 10>> >>
      [] OTHER                -> << <<"low", (0 - 50) * Hundredths>>,
                                    <<"high", 50 * Hundredths>> >>

\* part_002:57-64.  operation and noise_variance are not numbers: the model
\* holds them as 0 and they have no slider.
denoiseDefaults(method) ==
    CASE method = "gaussian"      -> << <<"kernel_size", 5 * Hundredths>>,
                                        <<"sigma", 1 * Hundredths>> >>
      [] method = "median"        -> << <<"kernel_size", 5 * Hundredths>> >>
      [] method = "bilateral"     -> << <<"d", 9 * Hundredths>>,
                                        <<"sigma_color", 75 * Hundredths>>,
                                        <<"sigma_space", 75 * Hundredths>> >>
      [] method = "nlm"           -> << <<"h", 10 * Hundredths>>,
                                        <<"template_window_size", 7 * Hundredths>>,
                                        <<"search_window_size", 21 * Hundredths>> >>
      [] method = "morphological" -> << <<"kernel_size", 5 * Hundredths>>,
                                        <<"operation", 0>> >>
      [] OTHER                    -> << <<"noise_variance", 0>> >>

NoSlider == [min |-> 0, max |-> 0 - 1, step |-> 1]

\* part_002:99-107
noiseParamConfigs(key) ==
    CASE key = "mean"       -> [min |-> (0 - 50) * Hundredths, max |-> 50 * Hundredths,
                                step |-> 1 * Hundredths]
      [] key = "std"        -> [min |-> 1 * Hundredths, max |-> 100 * Hundredths,
                                step |-> 1 * Hundredths]
      [] key = "amount"     -> [min |-> 1, max |-> 50, step |-> 1]
      [] key = "salt_ratio" -> [min |-> 0, max |-> 1 * Hundredths, step |-> 10]
      [] key = "scale"      -> [min |-> 10, max |-> 5 * Hundredths, step |-> 10]
      [] key = "low"        -> [min |-> (0 - 100) * Hundredths, max |-> 0,
                                step |-> 5 * Hundredths]
      [] key = "high"       -> [min |-> 0, max |-> 100 * Hundredths,
                                step |-> 5 * Hundredths]
      [] OTHER              -> NoSlider

\* The same table with the kernel sliders starting at 1, as FilterPanel's do
denoiseParamConfigsFromOne(key) ==
    CASE key \in {"kernel_size", "d", "template_window_size"} ->
            [min |-> 1 * Hundredths, max |-> 21 * Hundredths, step |-> 2 * Hundredths]
      [] key = "sigma" -> [min |-> 0, max |-> 10 * Hundredths, step |-> 10]
      [] key \in {"sigma_color", "sigma_space"} ->
            [min |-> 10 * Hundredths, max |-> 200 * Hundredths, step |-> 5 * Hundredths]
      [] key = "h" -> [min |-> 1 * Hundredths, max |-> 30 * Hundredths, step |-> 1 * Hundredths]
      [] key = "search_window_size" ->
            [min |-> 7 * Hundredths, max |-> 51 * Hundredths, step |-> 2 * Hundredths]
      [] OTHER -> NoSlider

\* part_002:109-118
denoiseParamConfigs(key) ==
    CASE key = "kernel_size" ->
            [min |-> 3 * Hundredths, max |-> 21 * Hundredths, step |-> 2 * Hundredths]
      [] key = "sigma" ->
            [min |-> 10, max |-> 10 * Hundredths, step |-> 10]
      [] key = "d" ->
            [min |-> 3 * Hundredths, max |-> 21 * Hundredths, step |-> 2 * Hundredths]
      [] key = "sigma_color" ->
            [min |-> 10 * Hundredths, max |-> 200 * Hundredths, step |-> 5 * Hundredths]
      [] key = "sigma_space" ->
            [min |-> 10 * Hundredths, max |-> 200 * Hundredths, step |-> 5 * Hundredths]
      [] key = "h" ->
            [min |-> 1 * Hundredths, max |-> 30 * Hundredths, step |-> 1 * Hundredths]
      [] key = "template_window_size" ->
            [min |-> 3 * Hundredths, max |-> 21 * Hundredths, step |-> 2 * Hundredths]
      [] key = "search_window_size" ->
            [min |-> 7 * Hundredths, max |-> 51 * Hundredths, step |-> 2 * Hundredths]
      [] OTHER -> NoSlider

NoCall == [action |-> "", type |-> "", params |-> <<>>]

\* part_002:33-37; submitted is the addNoise / removeNoise call the last step made
NoisePanelMounted ==
    [mounted |-> TRUE, mode |-> "add",
     selectedNoise |-> "gaussian", selectedDenoise |-> "gaussian",
     noiseParams |-> << <<"mean", 0>>, <<"std", 25 * Hundredths>> >>,
     denoiseParams |-> << <<"kernel_size", 5 * Hundredths>>, <<"sigma", 1 * Hundredths>> >>,
     submitted |-> NoCall]

NoiseInit ==
    /\ ServiceInit(<<>>)
    /\ filterPanel = Unmounted
    /\ noisePanel = NoisePanelMounted
    /\ engine = Idle
    /\ fourierPanel = Unmounted

NoisePanelStep(panel) ==
    /\ noisePanel' = panel
    /\ UNCHANGED <<now, ticks, calls, responseCache, pendingRequests, inflight, deleted,
                   fifo, lru, last, storeVars, filterPanel, engine, fourierPanel>>

\* part_002:137, 148
SetMode(mode) ==
    NoisePanelStep([noisePanel EXCEPT !.mode = mode, !.submitted = NoCall])

\* part_002:178 and the effect of 44-53
SetSelectedNoise(id) ==
    NoisePanelStep([noisePanel EXCEPT !.selectedNoise = id,
                                      !.noiseParams = noiseDefaults(id),
                                      !.submitted = NoCall])

\* part_002:230 and the effect of 56-66
SetSelectedDenoise(id) ==
    NoisePanelStep([noisePanel EXCEPT !.selectedDenoise = id,
                                      !.denoiseParams = denoiseDefaults(id),
                                      !.submitted = NoCall])

\* part_002:198-199 with 76-97: a slider of the add mode is moved
NoiseParamChange(i, value) ==
    /\ noisePanel.mode = "add"
    /\ i \in 1..Len(noisePanel.noiseParams)
    /\ value \in sliderValues(noiseParamConfigs(noisePanel.noiseParams[i][1]))
    /\ NoisePanelStep([noisePanel EXCEPT
            !.noiseParams = setParam(@, noisePanel.noiseParams[i][1], value),
            !.submitted = NoCall])

\* part_002:257-258 with 76-97: a slider of the remove mode is moved
DenoiseParamChange(i, value) ==
    /\ noisePanel.mode = "remove"
    /\ i \in 1..Len(noisePanel.denoiseParams)
    /\ value \in sliderValues(denoiseParamConfigs(noisePanel.denoiseParams[i][1]))
    /\ NoisePanelStep([noisePanel EXCEPT
            !.denoiseParams = setParam(@, noisePanel.denoiseParams[i][1], value),
            !.submitted = NoCall])

\* part_002:68-70, button at 204
HandleAddNoise ==
    /\ noisePanel.mode = "add"
    /\ NoisePanelStep([noisePanel EXCEPT
            !.submitted = [action |-> "addNoise", type |-> noisePanel.selectedNoise,
                           params |-> noisePanel.noiseParams]])

\* part_002:72-74, button at 263
HandleRemoveNoise ==
    /\ noisePanel.mode = "remove"
    /\ NoisePanelStep([noisePanel EXCEPT
            !.submitted = [action |-> "removeNoise", type |-> noisePanel.selectedDenoise,
                           params |-> noisePanel.denoiseParams]])

NoiseNext ==
    \/ \E mode \in {"add", "remove"} : SetMode(mode)
    \/ \E id \in NoiseTypes : SetSelectedNoise(id)
    \/ \E id \in DenoiseMethods : SetSelectedDenoise(id)
    \/ \E i \in 1..Len(noisePanel.noiseParams) :
          \E value \in SliderStops(noiseParamConfigs(noisePanel.noiseParams[i][1])) :
             NoiseParamChange(i, value)
    \/ \E i \in 1..Len(noisePanel.denoiseParams) :
          \E value \in SliderStops(denoiseParamConfigs(noisePanel.denoiseParams[i][1])) :
             DenoiseParamChange(i, value)
    \/ HandleAddNoise
    \/ HandleRemoveNoise

NoiseSpec == NoiseInit /\ [][NoiseNext]_vars

\* v is a whole number in lo..hi
WholeIn(v, lo, hi) ==
    /\ v % Hundredths = 0
    /\ lo * Hundredths <= v /\ v <= hi * Hundredths

OddIn(v, lo, hi) == WholeIn(v, lo, hi) /\ (v \div Hundredths) % 2 = 1

NoiseCallValues(action, types, names) ==
    IF noisePanel.submitted.action = action /\ noisePanel.submitted.type \in types
    THEN ValuesOf(noisePanel.submitted.params, names)
    ELSE {}

\* C12: every value NoisePanel submits through addNoise or removeNoise is in the
\* enforced range: Gaussian noise std in 1..100 and mean in -50..50, salt-pepper
\* amount in 0.01..0.5, NLM h in 1..30, template_window_size odd in 3..21,
\* search_window_size odd in 7..51, denoise kernel_size and d odd in 3..21, sigma
\* in 0.1..10, and uniform noise low <= high.
C12_SubmittedInEnforcedRange ==
    /\ \A v \in NoiseCallValues("addNoise", {"gaussian"}, {"std"}) :
          Hundredths <= v /\ v <= 100 * Hundredths
    /\ \A v \in NoiseCallValues("addNoise", {"gaussian"}, {"mean"}) :
          (0 - 50) * Hundredths <= v /\ v <= 50 * Hundredths
    /\ \A v \in NoiseCallValues("addNoise", {"salt_pepper"}, {"amount"}) :
          1 <= v /\ v <= 50
    /\ \A v \in NoiseCallValues("removeNoise", {"nlm"}, {"h"}) :
          Hundredths <= v /\ v <= 30 * Hundredths
    /\ \A v \in NoiseCallValues("removeNoise", {"nlm"}, {"template_window_size"}) :
          OddIn(v, 3, 21)
    /\ \A v \in NoiseCallValues("removeNoise", {"nlm"}, {"search_window_size"}) :
          OddIn(v, 7, 51)
    /\ \A v \in NoiseCallValues("removeNoise", DenoiseMethods, {"kernel_size", "d"}) :
          OddIn(v, 3, 21)
    /\ \A v \in NoiseCallValues("removeNoise", DenoiseMethods, {"sigma"}) :
          10 <= v /\ v <= 10 * Hundredths
    /\ \A low \in NoiseCallValues("addNoise", {"uniform"}, {"low"}) :
          \A high \in NoiseCallValues("addNoise", {"uniform"}, {"high"}) : low <= high

\* A Gaussian noise call, an NLM call and a uniform call with moved sliders
C12_Witness ==
    \/ /\ noisePanel.submitted.action = "removeNoise"
       /\ noisePanel.submitted.type = "nlm"
       /\ noisePanel.submitted.params # denoiseDefaults("nlm")
    \/ /\ noisePanel.submitted.action = "addNoise"
       /\ noisePanel.submitted.type = "uniform"
       /\ noisePanel.submitted.params # noiseDefaults("uniform")

-----------------------------------------------------------------------------
\* Request keys and the order of the parameters

\* All the orders in which an object literal can list the properties of S
Orderings(S) ==
    {f \in [1..Cardinality(S) -> S] : \A i, j \in 1..Cardinality(S) : f[i] = f[j] => i = j}

\* The params objects the callers of applyFilter pass (values in tenths)
ParamListings ==
    Orderings({<<"kernel_size", 50>>, <<"sigma", 10>>})
        \cup Orderings({<<"kernel_size", 30>>, <<"sigma", 10>>})

\* useStore.js:166-172 with api.js:188-194: applyFilter(filterType, params) up
\* to its await; the body carries params as the caller listed it
ApplyFilterWith(filterType, params) ==
    /\ calls < MaxStoreCalls
    /\ store.currentImage # <<>>
    /\ calls' = calls + 1
    /\ LET imageId == store.currentImage[1].id
           config  == [method |-> "post", url |-> postUrl("filterAPI.apply"),
                       data |-> Object(<< <<"image_id", imageId>>,
                                          <<"filter_type", filterType>>,
                                          <<"params", params>>,
                                          <<"use_cache", "true">> >>)]
       IN  Send("applyFilter",
                Request(config, "filterAPI.apply", imageId, "applyFilter", filterType),
                [store EXCEPT !.isLoading = TRUE])
    /\ UNCHANGED <<now, ticks, responseCache, deleted, fifo, lru, uploaded, outerVars>>

KeyNext ==
    \/ UploadImage
    \/ \E r \in inflight : UploadResponse(r)
    \/ \E params \in ParamListings : ApplyFilterWith("blur", params)
    \/ \E r \in inflight : \E v \in Versions : ActionResponse(r, v)
    \/ \E r \in inflight : ActionError(r)

KeySpec == Init /\ [][KeyNext]_vars

\* The properties of a body as a set: what the request says, whatever the order
PropertySet(fields) == {fields[i] : i \in 1..Len(fields)}

\* Same operation, same image, same parameter names and values
SemanticallyIdentical(c1, c2) ==
    /\ c1.method = c2.method
    /\ c1.url = c2.url
    /\ Len(c1.data.fields) = Len(c2.data.fields)
    /\ \A i \in 1..Len(c1.data.fields) :
          /\ c1.data.fields[i][1] = c2.data.fields[i][1]
          /\ IF c1.data.fields[i][1] = "params"
             THEN PropertySet(c1.data.fields[i][2]) = PropertySet(c2.data.fields[i][2])
             ELSE c1.data.fields[i][2] = c2.data.fields[i][2]

\* C13: two semantically identical requests (same operation, image, parameter
\* names and values) have the same key whatever the order of the parameters, so
\* they collide in pendingRequests: of the requests in flight, any two that are
\* semantically identical have one key.
C13_IdenticalRequestsSameKey ==
    \A r1, r2 \in inflight :
        SemanticallyIdentical(r1.config, r2.config)
            => getRequestKey(r1.config) = getRequestKey(r2.config)

-----------------------------------------------------------------------------
\* The numeric kernels of the server's processing engine.  An image is the
\* sequence of its pixels (one channel, row after row), each in 0..255.

MaxIntensity == 255

\* round(n / d) for n >= 0, d > 0
RoundDiv(n, d) == (2 * n + d) \div (2 * d)

\* Number of pixels of intensity at most v: the cumulative histogram
CDF(image, v) == Cardinality({i \in 1..Len(image) : image[i] <= v})

\* equalize_global: output = round(255 * CDF(input) / total_pixels)
equalize_global(image) ==
    [i \in 1..Len(image) |-> RoundDiv(MaxIntensity * CDF(image, image[i]), Len(image))]

\* Inputs of the model: 4x4 images of at most two intensities
ImageSide == 4

Intensities == {0, 64, 128, 200, MaxIntensity}

TwoLevelImage(a, b, k) == [i \in 1..(ImageSide * ImageSide) |-> IF i <= k THEN a ELSE b]

Images ==
    {TwoLevelImage(a, b, k) : a \in Intensities, b \in Intensities,
                              k \in 0..(ImageSide * ImageSide)}

Flat(v) == TwoLevelImage(v, v, 0)

EqualizeInit ==
    /\ ServiceInit(<<>>)
    /\ filterPanel = Unmounted
    /\ noisePanel = Unmounted
    /\ fourierPanel = Unmounted
    /\ \E image \in Images : engine = [status |-> "request", image |-> image, result |-> <<>>]

\* The engine runs equalize_global on the image of the request
EqualizeGlobal ==
    /\ engine.status = "request"
    /\ engine' = [engine EXCEPT !.status = "done", !.result = equalize_global(engine.image)]
    /\ UNCHANGED <<now, ticks, calls, responseCache, pendingRequests, inflight, deleted,
                   fifo, lru, last, storeVars, filterPanel, noisePanel, fourierPanel>>

EqualizeNext == EqualizeGlobal

EqualizeSpec == EqualizeInit /\ [][EqualizeNext]_vars

\* C14: equalize_global of the 4x4 image whose 16 pixels are all 128 returns the
\* image unchanged (4x4, all 128).
C14_FlatImageUnchanged ==
    (engine.status = "done" /\ engine.image = Flat(128)) => engine.result = Flat(128)

-----------------------------------------------------------------------------
\* frequency_filter, on 2x2 one-channel images <<f00, f01, f10, f11>>.  The 2-D
\* DFT of a 2x2 image is real and integral: F(u,v) = SUM f(x,y) * (-1)^(u*x + v*y).
\* Cutoffs are in hundredths of the maximal radius.

Coordinates == {0, 1}

Pixel(image, x, y) == image[2 * x + y + 1]

Sign(n) == IF n % 2 = 0 THEN 1 ELSE 0 - 1

RECURSIVE Sum(_, _)
Sum(f, S) ==
    IF S = {} THEN 0
    ELSE LET e == CHOOSE e \in S : TRUE IN f[e] + Sum(f, S \ {e})

Points == Coordinates \X Coordinates

\* The transform of the image at frequency (u, v)
DFT(image, u, v) ==
    Sum([p \in Points |-> Pixel(image, p[1], p[2]) * Sign(u * p[1] + v * p[2])], Points)

\* Squared distance of frequency (u, v) from the centre of the shifted spectrum;
\* index 1 of a 2-point transform is the frequency -1.  The largest is D_max^2.
DistanceSquared(u, v) == u * u + v * v

DmaxSquared == DistanceSquared(1, 1)

\* The ideal mask H(u,v): lowpass passes D <= cutoff * D_max, highpass is the
\* complement (cutoff in hundredths, compared on the squares)
Mask(filter_type, cutoff, u, v) ==
    LET inside == Hundredths * Hundredths * DistanceSquared(u, v)
                     <= cutoff * cutoff * DmaxSquared
    IN  IF (filter_type = "lowpass") = inside THEN 1 ELSE 0

Clip(n) == IF n < 0 THEN 0 ELSE IF n > MaxIntensity THEN MaxIntensity ELSE n

\* The inverse transform of the masked spectrum, rounded and clipped to 0..255
Filtered(image, filter_type, cutoff) ==
    LET value(x, y) ==
            Sum([p \in Points |->
                    Mask(filter_type, cutoff, p[1], p[2]) * DFT(image, p[1], p[2])
                        * Sign(p[1] * x + p[2] * y)], Points)
        out(x, y) == IF value(x, y) < 0 THEN 0 ELSE Clip(RoundDiv(value(x, y), 4))
    IN  <<out(0, 0), out(0, 1), out(1, 0), out(1, 1)>>

\* The declared range of the frequency cutoff: 0.01 to 0.99
CutoffMin == 1

CutoffMax == 99

\* frequency_filter(image, filter_type, method, cutoff): fails with
\* InvalidParameter for a cutoff outside its declared range
frequency_filter(image, filter_type, method, cutoff) ==
    IF cutoff < CutoffMin \/ cutoff > CutoffMax
    THEN [error |-> "InvalidParameter", result |-> <<>>]
    ELSE [error |-> "", result |-> Filtered(image, filter_type, cutoff)]

\* Inputs of the model
SmallImages == [1..4 -> {0, 100, MaxIntensity}]

Cutoffs == {0, CutoffMin, 50, 71, CutoffMax, CutoffMax + 1}

FrequencyInit ==
    /\ ServiceInit(<<>>)
    /\ filterPanel = Unmounted
    /\ noisePanel = Unmounted
    /\ fourierPanel = Unmounted
    /\ \E image \in SmallImages, filter_type \in {"lowpass", "highpass"}, cutoff \in Cutoffs :
          engine = [status |-> "request", image |-> image, filter_type |-> filter_type,
                    method |-> "ideal", cutoff |-> cutoff, error |-> "", result |-> <<>>]

\* The engine runs frequency_filter on the request
FrequencyFilter ==
    /\ engine.status = "request"
    /\ LET out == frequency_filter(engine.image, engine.filter_type, engine.method,
                                   engine.cutoff)
       IN  engine' = [engine EXCEPT !.status = "done", !.error = out.error,
                                    !.result = out.result]
    /\ UNCHANGED <<now, ticks, calls, responseCache, pendingRequests, inflight, deleted,
                   fifo, lru, last, storeVars, filterPanel, noisePanel, fourierPanel>>

FrequencyNext == FrequencyFilter

FrequencySpec == FrequencyInit /\ [][FrequencyNext]_vars

\* The flat image of the mean intensity of the image
MeanImage(image) ==
    LET mean == RoundDiv(image[1] + image[2] + image[3] + image[4], 4)
    IN  <<mean, mean, mean, mean>>

\* C15: frequency_filter with filter_type lowpass, method ideal and cutoff 0.0 is
\* accepted and returns the flat image of the image's mean intensity, and a
\* cutoff outside the declared range 0.01..0.99 fails with InvalidParameter.
C15_ZeroCutoffGivesMeanAndRangeEnforced ==
    engine.status = "done" =>
        /\ (engine.filter_type = "lowpass" /\ engine.method = "ideal" /\ engine.cutoff = 0)
              => (engine.error = "" /\ engine.result = MeanImage(engine.image))
        /\ (engine.cutoff < CutoffMin \/ engine.cutoff > CutoffMax)
              => engine.error = "InvalidParameter"

-----------------------------------------------------------------------------
\* Properties of the store under overlapping actions (checked under StoreSpec)

\* The image a processed image was computed from (the image_id of its request)
SourceOf(processed) == processed.url[2]

IsCurrent(imageId) ==
    store.currentImage # <<>> /\ store.currentImage[1].id = imageId

\* C16: no stale result is applied: a non-null processedImage, and every entry
\* of imageHistory, was computed from the image that is currentImage; a response
\* to a request issued for an image since replaced or cleared sets neither.
C16_NoStaleResult ==
    /\ store.processedImage # <<>> => IsCurrent(SourceOf(store.processedImage[1]))
    /\ \A i \in 1..Len(store.imageHistory) : IsCurrent(SourceOf(store.imageHistory[i]))

\* The loading actions that have sent their request and have not settled
ActionsInFlight == {r.action : r \in inflight}

\* C17: isLoading is true in every state in which at least one loading action
\* has sent its request and has not yet settled.
C17_LoadingWhileInFlight ==
    ActionsInFlight # {} => store.isLoading

\* A request settles: with a response or with an error (a timeout is an error)
Settle ==
    \/ \E r \in inflight : UploadResponse(r)
    \/ \E r \in inflight : \E v \in Versions : ActionResponse(r, v)
    \/ \E r \in inflight : ActionError(r)

\* The steps of the store without the clock
StoreLiveNext ==
    \/ UploadImage
    \/ CalculateHistogram
    \/ \E action \in PostActions : \E param \in ParamsOf(action) : StartAction(action, param)
    \/ Settle
    \/ ResetState
    \/ ClearImage
    \/ UndoLastOperation

\* The store, with every request settling eventually (axios' timeout, api.js:11,
\* bounds the life of a request)
StoreLiveSpec == Init /\ [][StoreLiveNext]_vars /\ WF_vars(Settle)

InFlightIds == {r.id : r \in inflight}

\* C18: the loading flag is never stuck: every started action eventually
\* terminates (its request leaves the requests in flight), and in any state
\* where no action is in flight isLoading is false.
C18_LoadingNeverStuck ==
    /\ [](ActionsInFlight = {} => ~store.isLoading)
    /\ \A id \in 1..(MaxStoreCalls + 1) : (id \in InFlightIds) ~> (id \notin InFlightIds)

\* The last action in flight has failed, after at least two calls
C18_Witness ==
    /\ ActionsInFlight = {}
    /\ ~store.isLoading
    /\ \E o \in last.out : o.kind = "error"
    /\ calls >= 2

\* C19: pendingRequests holds only in-flight requests: every entry is the
\* controller of a request in flight, so that in a quiescent state (no request
\* in flight) pendingRequests is empty.
C19_PendingOnlyInFlight ==
    /\ Controllers(pendingRequests) \subseteq InFlightIds
    /\ inflight = {} => pendingRequests = {}

\* C20: undoLastOperation with a non-empty imageHistory removes exactly the last
\* entry and sets processedImage to the new last entry, or to null when the
\* history becomes empty; with an empty imageHistory it changes no store field.
C20_UndoRemovesLastEntry ==
    [][last'.op = "undoLastOperation" =>
        LET n == Len(store.imageHistory)
        IN  IF n = 0 THEN store' = store
            ELSE /\ Len(store'.imageHistory) = n - 1
                 /\ \A i \in 1..(n - 1) : store'.imageHistory[i] = store.imageHistory[i]
                 /\ store'.processedImage =
                        IF n = 1 THEN <<>> ELSE <<store.imageHistory[n - 1]>>
                 /\ store'.currentImage = store.currentImage
                 /\ store'.histogram = store.histogram
                 /\ store'.fftData = store.fftData
                 /\ store'.isLoading = store.isLoading
                 /\ store'.activeTab = store.activeTab]_vars

\* An undo that went back to an earlier result
C20_Witness ==
    /\ last.op = "undoLastOperation"
    /\ Len(store.imageHistory) >= 1
    /\ store.processedImage = <<store.imageHistory[Len(store.imageHistory)]>>

\* C21: in every reachable state of the store imageHistory is empty if and only
\* if processedImage is null, and when it is non-empty processedImage.url is the
\* url of the last imageHistory entry.
C21_HistoryMatchesProcessedImage ==
    /\ (store.imageHistory = <<>>) <=> (store.processedImage = <<>>)
    /\ store.imageHistory # <<>> =>
          store.processedImage[1].url = store.imageHistory[Len(store.imageHistory)].url

\* Two results were applied and an undo went back to the first
C21_Witness ==
    /\ last.op = "undoLastOperation"
    /\ Len(store.imageHistory) = 1
    /\ store.processedImage # <<>>

-----------------------------------------------------------------------------
\* FourierPanel (unnamed/part_000); cutoffs in hundredths

\* part_000:6-12
frequencyFilters == {"lowpass", "highpass", "bandpass", "bandstop", "notch"}

\* part_000:14-18
filterMethods == {"ideal", "gaussian", "butterworth"}

\* part_000:295-303 and 316-324: both cutoff sliders
cutoffSlider == [min |-> CutoffMin, max |-> CutoffMax, step |-> 1]

\* part_000:338-346
orderSlider == [min |-> 1, max |-> 10, step |-> 1]

\* part_000:109 and 101: ['bandpass', 'bandstop'].includes(selectedFilter)
needsHighCutoff(selectedFilter) == selectedFilter \in {"bandpass", "bandstop"}

NoFilterCall == [filterType |-> "", cutoff |-> 0, filter_method |-> "", filter_order |-> 0,
                 cutoff_high |-> <<>>]

\* part_000:82-86; submitted is the applyFrequencyFilter call the last step made
\* (cutoff_high is <<>> when the options have no such property)
FourierPanelMounted ==
    [mounted |-> TRUE, selectedFilter |-> "lowpass", filterMethod |-> "gaussian",
     cutoff |-> 30, cutoffHigh |-> 70, filterOrder |-> 2, submitted |-> NoFilterCall]

FourierInit ==
    /\ ServiceInit(<<>>)
    /\ filterPanel = Unmounted
    /\ noisePanel = Unmounted
    /\ engine = Idle
    /\ fourierPanel = FourierPanelMounted

FourierPanelStep(panel) ==
    /\ fourierPanel' = panel
    /\ UNCHANGED <<now, ticks, calls, responseCache, pendingRequests, inflight, deleted,
                   fifo, lru, last, storeVars, filterPanel, noisePanel, engine>>

\* part_000:198
SetSelectedFilter(id) ==
    FourierPanelStep([fourierPanel EXCEPT !.selectedFilter = id, !.submitted = NoFilterCall])

\* part_000:274
SetFilterMethod(id) ==
    FourierPanelStep([fourierPanel EXCEPT !.filterMethod = id, !.submitted = NoFilterCall])

\* part_000:295-303
SetCutoff(value) ==
    /\ value \in sliderValues(cutoffSlider)
    /\ FourierPanelStep([fourierPanel EXCEPT !.cutoff = value, !.submitted = NoFilterCall])

\* part_000:306-326: the slider is rendered for bandpass and bandstop only
SetCutoffHigh(value) ==
    /\ needsHighCutoff(fourierPanel.selectedFilter)
    /\ value \in sliderValues(cutoffSlider)
    /\ FourierPanelStep([fourierPanel EXCEPT !.cutoffHigh = value, !.submitted = NoFilterCall])

\* part_000:328-348: the slider is rendered for the butterworth method only
SetFilterOrder(value) ==
    /\ fourierPanel.filterMethod = "butterworth"
    /\ value \in sliderValues(orderSlider)
    /\ FourierPanelStep([fourierPanel EXCEPT !.filterOrder = value, !.submitted = NoFilterCall])

\* part_000:95-107: applyFrequencyFilter(selectedFilter, options)
HandleApplyFilter ==
    FourierPanelStep([fourierPanel EXCEPT !.submitted =
        [filterType    |-> fourierPanel.selectedFilter,
         cutoff        |-> fourierPanel.cutoff,
         filter_method |-> fourierPanel.filterMethod,
         filter_order  |-> fourierPanel.filterOrder,
         cutoff_high   |-> IF needsHighCutoff(fourierPanel.selectedFilter)
                           THEN <<fourierPanel.cutoffHigh>> ELSE <<>>]])

FourierNext ==
    \/ \E id \in frequencyFilters : SetSelectedFilter(id)
    \/ \E id \in filterMethods : SetFilterMethod(id)
    \/ \E value \in SliderStops(cutoffSlider) : SetCutoff(value)
    \/ \E value \in SliderStops(cutoffSlider) : SetCutoffHigh(value)
    \/ \E value \in SliderStops(orderSlider) : SetFilterOrder(value)
    \/ HandleApplyFilter

FourierSpec == FourierInit /\ [][FourierNext]_vars

\* C22: every bandpass or bandstop request FourierPanel submits through
\* applyFrequencyFilter describes a non-empty band: cutoff <= cutoff_high.
C22_BandIsNotEmpty ==
    fourierPanel.submitted.filterType \in {"bandpass", "bandstop"} =>
        /\ fourierPanel.submitted.cutoff_high # <<>>
        /\ fourierPanel.submitted.cutoff <= fourierPanel.submitted.cutoff_high[1]
====
